---- MODULE Spec2Model ----
(***************************************************************************)
(* State-machine model of ditty.c: the Dirty Pipe (CVE-2022-0847) probe.   *)
(*                                                                         *)
(* The program is single-threaded.  Its state is the position of the one   *)
(* thread (pc), the locals of the active functions, the descriptors the    *)
(* process holds, the target file as seen through the page cache, and the  *)
(* ring of pipe_buffer slots of the pipe the program creates.  The kernel  *)
(* side of every system call is a nondeterministic choice between the      *)
(* results the call can produce.                                           *)
(*                                                                         *)
(* Two specifications are given:                                           *)
(*   Spec      main(): the harness with its hard-coded arguments, run      *)
(*             up to MaxRuns times in sequence on the same file system;    *)
(*   CallSpec  check_dirty_pipe() called once with path/offset/data and a  *)
(*             target file drawn from bounded sets.                        *)
(***************************************************************************)
EXTENDS Integers, Naturals, Sequences, FiniteSets, TLC

(***************************************************************************)
(* Program constants                                                       *)
(***************************************************************************)
PAGE_SIZE == 4096

EXIT_SUCCESS == 0

EXIT_FAILURE == 1

BufferSize == 4096

\* an int is 32 bits wide
IntMax == 2147483647

\* "Hello World!\n"
test_string == <<72, 101, 108, 108, 111, 32, 87, 111, 114, 108, 100, 33, 10>>

\* loff_t offset = 6 in main
main_offset == 6

\* "mammy"
main_data == <<109, 97, 109, 109, 121>>

\* int r=read(fd,buf,255)
ReadMax == 255

(***************************************************************************)
(* Bounds of the model                                                     *)
(***************************************************************************)
\* the pipe ring has 1..MaxSlots slots of PAGE_SIZE bytes
MaxSlots == 2

\* sequential harness runs
MaxRuns == 2

\* offsets and file sizes of CallSpec lie within MaxDelta of 0 or of a page boundary
MaxDelta == 2

\* pages whose boundaries CallSpec offsets are placed around
MaxPage == 1

\* payload lengths 0..MaxLen (and the lengths next to PAGE_SIZE)
MaxLen == 2

\* PrepSpec: the kernel's page is PAGE_SIZE plus 0..MaxHalfPages half pages
MaxHalfPages == 6

(***************************************************************************)
(* Diagnostics written to stderr: they identify the WriteError            *)
(***************************************************************************)
PageBoundaryOffset == "Sorry, cannot start writing at a page boundary"

CrossesPageBoundary == "Sorry, cannot write across a page boundary"

OpenFailed == "open failed"

StatFailed == "stat failed"

OffsetOutOfRange == "Offset is not inside the file"

WouldGrowFile == "Sorry, cannot enlarge the file"

SpliceFailed == "splice failed"

ShortSplice == "short splice"

WriteFailed == "write failed"

ShortWrite == "short write"

NoError == ""

WriteErrors == {PageBoundaryOffset, CrossesPageBoundary, OpenFailed, StatFailed,
                OffsetOutOfRange, WouldGrowFile, SpliceFailed, ShortSplice,
                WriteFailed, ShortWrite}

(***************************************************************************)
(* Arithmetic as the C code computes it                                    *)
(***************************************************************************)
Min(a, b) == IF a < b THEN a ELSE b

\* bitwise OR of two non-negative integers
RECURSIVE BitOr(_, _)
BitOr(a, b) ==
    IF a = 0 THEN b
    ELSE IF b = 0 THEN a
    ELSE (IF (a % 2 = 1) \/ (b % 2 = 1) THEN 1 ELSE 0) + 2 * BitOr(a \div 2, b \div 2)

\* variant: the mask is PAGE_SIZE instead of PAGE_SIZE - 1
NextPage_WrongMask(offset) == BitOr(offset, PAGE_SIZE) + 1

\* const loff_t next_page = (offset | (PAGE_SIZE - 1)) + 1;
NextPage(offset) == BitOr(offset, PAGE_SIZE - 1) + 1

\* variant: the end is the position of the last byte
EndOffset_LastByte(offset, data) == offset + Len(data) - 1

\* const loff_t end_offset = offset + (loff_t)data_size;
EndOffset(offset, data) == offset + Len(data)

(***************************************************************************)
(* An unsigned is held as its 32-bit pattern, read as a two's-complement   *)
(* integer: a pattern below 0 stands for the value pattern + 2^32.         *)
(***************************************************************************)
\* const unsigned pipe_size = fcntl(...): the int's bits, kept as they are
ToUnsigned(v) == v

\* a > b for an unsigned a and an int b with 0 <= b
UGt(a, b) == a < 0 \/ a > b

\* a - n for an unsigned a and 0 <= n <= a, n <= BufferSize
USub(a, n) ==
    IF a < 0 /\ (a + IntMax) + 1 < n
    THEN ((((a + IntMax) + 1) - n) + IntMax) + 1
    ELSE a - n

\* unsigned n = r > sizeof(buffer) ? sizeof(buffer) : r;
Chunk(r) == IF UGt(r, BufferSize) THEN BufferSize ELSE r

(***************************************************************************)
(* The kernel's pipe: a ring of pipe_buffer slots.  A slot is              *)
(*   merge  PIPE_BUF_FLAG_CAN_MERGE                                        *)
(*   len    bytes held                                                     *)
(*   page   -1 for an anonymous page, else the index of the page-cache     *)
(*          page of the target file the slot refers to                     *)
(*   poff   offset of the slot's first byte within its page                *)
(* head counts the slots ever filled, tail the slots ever released; n is   *)
(* the number of slots and slot the size of the kernel's page, the bytes   *)
(* one slot holds.                                                         *)
(***************************************************************************)
AnonPage == 0 - 1

FreshSlot == [merge |-> FALSE, len |-> 0, page |-> AnonPage, poff |-> 0]

NoPipe == [n |-> 0, slot |-> 0, bufs |-> <<>>, head |-> 0, tail |-> 0]

\* a ring of n slots of s bytes whose flags are clear
KernelPipe(n, s) ==
    [n |-> n, slot |-> s, bufs |-> [i \in 1..n |-> FreshSlot], head |-> 0, tail |-> 0]

\* pipe(p) on a kernel whose page is PAGE_SIZE
NewPipe(n) == KernelPipe(n, PAGE_SIZE)

\* the capacity F_GETPIPE_SZ reports
PipeCapacity(p) == p.n * p.slot

PipeOccupancy(p) == p.head - p.tail

PipeFull(p) == PipeOccupancy(p) >= p.n

PipeEmpty(p) == PipeOccupancy(p) = 0

SlotIndex(p, c) == (c % p.n) + 1

LastSlot(p) == SlotIndex(p, p.head - 1)

PipeBytes(p) ==
    LET RECURSIVE Sum(_)
        Sum(i) == IF i = 0 THEN 0 ELSE p.bufs[i].len + Sum(i - 1)
    IN Sum(p.n)

\* pipe_write() appends k bytes (0 < k <= BufferSize) to the last slot when
\* k is not a whole page, the slot carries PIPE_BUF_FLAG_CAN_MERGE and the
\* bytes fit in its page
PipeCanMerge(p, k) ==
    /\ ~PipeEmpty(p)
    /\ k % p.slot # 0
    /\ p.bufs[LastSlot(p)].merge
    /\ p.bufs[LastSlot(p)].poff + p.bufs[LastSlot(p)].len + (k % p.slot) <= p.slot

PipeMerge(p, k) ==
    [p EXCEPT !.bufs[LastSlot(p)].len = @ + k]

\* pipe_write() of k bytes (0 < k <= BufferSize) that takes a new slot: an
\* anonymous page, marked PIPE_BUF_FLAG_CAN_MERGE
PipeWriteNew(p, k) ==
    [p EXCEPT !.bufs[SlotIndex(p, p.head)] =
                  [merge |-> TRUE, len |-> k, page |-> AnonPage, poff |-> 0],
              !.head = @ + 1]

\* pipe_read() of up to k bytes: slots are consumed from the tail; a slot that
\* becomes empty is released, its flags are left as they are
RECURSIVE PipeRead(_, _)
PipeRead(p, k) ==
    IF k = 0 \/ PipeEmpty(p) THEN p
    ELSE LET i == SlotIndex(p, p.tail)
             c == Min(k, p.bufs[i].len)
         IN IF c = p.bufs[i].len
            THEN PipeRead([p EXCEPT !.bufs[i].len = 0, !.bufs[i].poff = 0,
                                    !.bufs[i].page = AnonPage, !.tail = @ + 1], k - c)
            ELSE [p EXCEPT !.bufs[i].len = @ - c, !.bufs[i].poff = @ + c]

\* splice() of one byte at file position pos: the slot at the head refers to
\* the page-cache page.  A vulnerable kernel (copy_page_to_iter_pipe) leaves
\* the slot's flags as they were; a fixed kernel initialises them.
PipeSplice(p, pos, vuln) ==
    [p EXCEPT !.bufs[SlotIndex(p, p.head)] =
                  [merge |-> IF vuln THEN @.merge ELSE FALSE,
                   len |-> 1, page |-> pos \div p.slot, poff |-> pos % p.slot],
              !.head = @ + 1]

(***************************************************************************)
(* The file at path, as read through the page cache:                       *)
(*   exists  the path names a file                                         *)
(*   size    st_size                                                       *)
(*   bytes   the bytes at the positions (from 0) that were written since   *)
(*           the model started; every other position below size holds      *)
(*           FileByte(position)                                            *)
(***************************************************************************)
FileByte(i) == i % 100

NoBytes == [i \in {} |-> 0]

NoFile == [exists |-> FALSE, size |-> 0, bytes |-> NoBytes]

ByteAt(f, i) == IF i \in DOMAIN f.bytes THEN f.bytes[i] ELSE FileByte(i)

\* the first n bytes of the file, as read() delivers them
FirstBytes(f, n) == [i \in 1..Min(n, f.size) |-> ByteAt(f, i - 1)]

\* the two files hold the same bytes
SameContent(f, g) ==
    /\ f.size = g.size
    /\ \A i \in DOMAIN f.bytes \cup DOMAIN g.bytes : i < f.size => ByteAt(f, i) = ByteAt(g, i)

\* the page-cache bytes of the file after k bytes of d were stored at position pos
\* (the size of the file stays as it is)
PageCacheStore(f, pos, d, k) ==
    [f EXCEPT !.bytes =
        [i \in DOMAIN f.bytes \cup {j \in pos..(pos + k - 1) : j < f.size} |->
            IF i >= pos /\ i < pos + k THEN d[(i - pos) + 1] ELSE f.bytes[i]]]

\* file position just after the bytes of the last slot, when it is file-backed
LastSlotEnd(p) ==
    p.bufs[LastSlot(p)].page * p.slot + p.bufs[LastSlot(p)].poff + p.bufs[LastSlot(p)].len

(***************************************************************************)
(* State                                                                   *)
(***************************************************************************)
VARIABLES
    pc,          \* position of the thread
    run,         \* number of the harness run (Spec), 1 in CallSpec
    vulnerable,  \* the kernel does not initialise the flags of a spliced slot
    isRoot,      \* the process may open a 0444 file for writing
    file,        \* the file at path, as read through the page cache
    fds,         \* descriptors the process holds
    cdp_offset0, \* check_dirty_pipe: the offset argument as passed
    offset,      \* check_dirty_pipe: loff_t offset (modified in place)
    data,        \* check_dirty_pipe: data
    data_size,   \* check_dirty_pipe: strlen(data)
    next_page,   \* check_dirty_pipe: next_page
    end_offset,  \* check_dirty_pipe: end_offset
    st_size,     \* check_dirty_pipe: st.st_size
    nbytes,      \* check_dirty_pipe: nbytes
    pipe,        \* the kernel's pipe behind p[0], p[1]
    pipe_size,   \* prepare_pipe: pipe_size
    r,           \* prepare_pipe: r
    diag,        \* the diagnostic check_dirty_pipe wrote to stderr
    trace,       \* the steps of check_dirty_pipe performed in this call, in order
    cdp_ret,     \* value returned by check_dirty_pipe
    create_ret,  \* value returned by create_test_file
    ret,         \* main: ret (value returned by check_file_content)
    out,         \* lines printed to stdout in this run
    exit_status, \* exit status of the run, -1 while running
    buf,         \* check_file_content: the bytes read() left in buf
    cfc_r,       \* check_file_content: r, the value read() returned
    faulted,     \* some system call failed for a reason outside the program
    verdicts     \* the verdicts of the earlier runs, in order

vars == <<pc, run, vulnerable, isRoot, file, fds, cdp_offset0, offset, data, data_size,
          next_page, end_offset, st_size, nbytes, pipe, pipe_size, r, diag, trace,
          cdp_ret, create_ret, ret, out, exit_status, buf, cfc_r, faulted, verdicts>>

env == <<run, vulnerable, isRoot, verdicts>>

args == <<cdp_offset0, data>>

cfcLocals == <<buf, cfc_r>>

mainLocals == <<create_ret, ret, out, exit_status, cfcLocals>>

pipeLocals == <<pipe, pipe_size, r>>

Running == 0 - 1

NotReturned == 0 - 2

(***************************************************************************)
(* check_dirty_pipe(path, offset, data)                                    *)
(***************************************************************************)
\* fprintf(stderr, msg) or perror(msg); return EXIT_FAILURE;
Fail(msg) ==
    /\ diag' = msg
    /\ cdp_ret' = EXIT_FAILURE
    /\ pc' = "cdp_return"

Continue(next) ==
    /\ pc' = next
    /\ UNCHANGED <<diag, cdp_ret>>

\* variant: only offset 0 is rejected
IsPageBoundary_ZeroOnly(off) == off = 0

\* offset % PAGE_SIZE == 0
IsPageBoundary(off) == off % PAGE_SIZE = 0

\* variant: the comparison is >=
CrossesPage_Inclusive(end, next) == end >= next

\* end_offset > next_page
CrossesPage(end, next) == end > next

\* variant: the comparison is >=
OffsetOutside_Inclusive(off, size) == off >= size

\* offset > st.st_size
OffsetOutside(off, size) == off > size

\* variant: the comparison is >=
EndOutside_Inclusive(end, size) == end >= size

\* end_offset > st.st_size
EndOutside(end, size) == end > size

\* variant: the offset is not decremented before the splice
SplicePos_NoDecrement(off) == off

\* --offset: the position of the byte that is spliced
SplicePos(off) == off - 1

\* if (offset % PAGE_SIZE == 0)
CheckPageBoundary ==
    /\ pc = "cdp_boundary"
    /\ data_size' = Len(data)
    /\ trace' = Append(trace, "boundary")
    /\ IF IsPageBoundary(offset) THEN Fail(PageBoundaryOffset) ELSE Continue("cdp_cross")
    /\ UNCHANGED <<env, args, file, fds, offset, next_page, end_offset, st_size, nbytes,
                   pipeLocals, mainLocals, faulted>>

\* if (end_offset > next_page)
CheckCrossPage ==
    /\ pc = "cdp_cross"
    /\ next_page' = NextPage(offset)
    /\ end_offset' = EndOffset(offset, data)
    /\ trace' = Append(trace, "cross")
    /\ IF CrossesPage(end_offset', next_page') THEN Fail(CrossesPageBoundary) ELSE Continue("cdp_open")
    /\ UNCHANGED <<env, args, file, fds, offset, data_size, st_size, nbytes,
                   pipeLocals, mainLocals, faulted>>

\* const int fd = open(path, O_RDONLY); if (fd < 0)
OpenFile ==
    /\ pc = "cdp_open"
    /\ trace' = Append(trace, "open")
    /\ \E ok \in BOOLEAN :
          IF ok /\ file.exists
          THEN /\ fds' = fds \cup {"fd"}
               /\ Continue("cdp_fstat")
               /\ UNCHANGED faulted
          ELSE /\ Fail(OpenFailed)
               /\ faulted' = (faulted \/ file.exists)
               /\ UNCHANGED fds
    /\ UNCHANGED <<env, args, file, offset, data_size, next_page, end_offset, st_size,
                   nbytes, pipeLocals, mainLocals>>

\* if (fstat(fd, &st))
Fstat ==
    /\ pc = "cdp_fstat"
    /\ trace' = Append(trace, "stat")
    /\ \E ok \in BOOLEAN :
          IF ok
          THEN /\ st_size' = file.size
               /\ Continue("cdp_offset")
               /\ UNCHANGED faulted
          ELSE /\ Fail(StatFailed)
               /\ faulted' = TRUE
               /\ UNCHANGED st_size
    /\ UNCHANGED <<env, args, file, fds, offset, data_size, next_page, end_offset,
                   nbytes, pipeLocals, mainLocals>>

\* if (offset > st.st_size)
CheckOffset ==
    /\ pc = "cdp_offset"
    /\ trace' = Append(trace, "offset")
    /\ IF OffsetOutside(offset, st_size) THEN Fail(OffsetOutOfRange) ELSE Continue("cdp_end")
    /\ UNCHANGED <<env, args, file, fds, offset, data_size, next_page, end_offset, st_size,
                   nbytes, pipeLocals, mainLocals, faulted>>

\* if (end_offset > st.st_size)
CheckEnd ==
    /\ pc = "cdp_end"
    /\ trace' = Append(trace, "end")
    /\ IF EndOutside(end_offset, st_size) THEN Fail(WouldGrowFile) ELSE Continue("pp_pipe")
    /\ UNCHANGED <<env, args, file, fds, offset, data_size, next_page, end_offset, st_size,
                   nbytes, pipeLocals, mainLocals, faulted>>

(***************************************************************************)
(* prepare_pipe(p)                                                         *)
(***************************************************************************)
\* if (pipe(p)) abort();
\* variant: a failed pipe() makes check_dirty_pipe return
PipeFailurePc_Return == "cdp_return"

\* if (pipe(p)) abort();
PipeFailurePc == "aborted"

PipeCreate ==
    /\ pc = "pp_pipe"
    /\ trace' = Append(trace, "prepare")
    /\ \E ok \in BOOLEAN, n \in 1..MaxSlots :
          IF ok
          THEN /\ pipe' = NewPipe(n)
               /\ fds' = fds \cup {"p0", "p1"}
               /\ pc' = "pp_getsz"
               /\ UNCHANGED faulted
          ELSE /\ pc' = PipeFailurePc
               /\ faulted' = TRUE
               /\ UNCHANGED <<pipe, fds>>
    /\ UNCHANGED <<env, args, file, offset, data_size, next_page, end_offset, st_size,
                   nbytes, pipe_size, r, diag, cdp_ret, mainLocals>>

\* variant: the loops count one buffer instead of the pipe size
LoopStart_OneChunk(ps) == IF UGt(ps, BufferSize) THEN BufferSize ELSE ps

\* for (unsigned r = pipe_size; ...: the count a loop starts from
LoopStart(ps) == ps

\* const unsigned pipe_size = fcntl(p[1], F_GETPIPE_SZ); for (unsigned r = pipe_size; ...
GetPipeSize ==
    /\ pc = "pp_getsz"
    /\ \E ok \in BOOLEAN :
          /\ pipe_size' = ToUnsigned(IF ok THEN PipeCapacity(pipe) ELSE 0 - 1)
          /\ faulted' = (faulted \/ ~ok)
    /\ r' = LoopStart(pipe_size')
    /\ pc' = "pp_fill"
    /\ UNCHANGED <<env, args, file, fds, offset, data_size, next_page, end_offset, st_size,
                   nbytes, pipe, diag, trace, cdp_ret, mainLocals>>

\* for (unsigned r = pipe_size; r > 0;) { n = ...; write(p[1], buffer, n); r -= n; }
\* a write that finds no room in the last slot and no free slot does not
\* return: nobody reads the pipe
FillStep ==
    /\ pc = "pp_fill"
    /\ IF UGt(r, 0)
       THEN IF PipeFull(pipe) /\ ~PipeCanMerge(pipe, Chunk(r))
            THEN /\ pc' = "blocked"
                 /\ UNCHANGED <<pipe, r>>
            ELSE /\ pipe' = IF PipeCanMerge(pipe, Chunk(r))
                            THEN PipeMerge(pipe, Chunk(r))
                            ELSE PipeWriteNew(pipe, Chunk(r))
                 /\ r' = USub(r, Chunk(r))
                 /\ pc' = "pp_fill"
       ELSE /\ r' = LoopStart(pipe_size)
            /\ pc' = "pp_drain"
            /\ UNCHANGED pipe
    /\ UNCHANGED <<env, args, file, fds, offset, data_size, next_page, end_offset, st_size,
                   nbytes, pipe_size, diag, trace, cdp_ret, mainLocals, faulted>>

\* for (unsigned r = pipe_size; r > 0;) { n = ...; read(p[0], buffer, n); r -= n; }
\* a read from an empty pipe does not return: the write end is open
DrainStep ==
    /\ pc = "pp_drain"
    /\ IF UGt(r, 0)
       THEN IF PipeEmpty(pipe)
            THEN /\ pc' = "blocked"
                 /\ UNCHANGED <<pipe, r>>
            ELSE /\ pipe' = PipeRead(pipe, Chunk(r))
                 /\ r' = USub(r, Chunk(r))
                 /\ pc' = "pp_drain"
       ELSE /\ pc' = "cdp_splice"
            /\ UNCHANGED <<pipe, r>>
    /\ UNCHANGED <<env, args, file, fds, offset, data_size, next_page, end_offset, st_size,
                   nbytes, pipe_size, diag, trace, cdp_ret, mainLocals, faulted>>

(***************************************************************************)
(* check_dirty_pipe, continued: the splice and the write                   *)
(***************************************************************************)
\* --offset; ssize_t nbytes = splice(fd, &offset, p[1], NULL, 1, 0);
\* the kernel transfers one byte unless the position is at or past the end of
\* the file; it may also fail, or transfer nothing
\* variant: a transfer of no byte is not an error
SpliceError_ZeroOk(n) == IF n < 0 THEN SpliceFailed ELSE NoError

\* if (nbytes < 0) { perror("splice failed"); ... } if (nbytes == 0) { "short splice" ... }
SpliceError(n) == IF n < 0 THEN SpliceFailed ELSE IF n = 0 THEN ShortSplice ELSE NoError

Splice ==
    /\ pc = "cdp_splice"
    /\ trace' = Append(trace, "splice")
    /\ \E res \in {"ok", "fail", "zero"} :
          LET pos == SplicePos(offset)
              n == IF res = "fail" THEN 0 - 1
                   ELSE IF res = "zero" \/ pos >= file.size THEN 0
                   ELSE 1
          IN /\ nbytes' = n
             /\ offset' = IF n = 1 THEN pos + 1 ELSE pos
             /\ pipe' = IF n = 1 THEN PipeSplice(pipe, pos, vulnerable) ELSE pipe
             /\ faulted' = (faulted \/ res # "ok")
             /\ IF SpliceError(n) # NoError THEN Fail(SpliceError(n))
                ELSE Continue("cdp_write")
    /\ UNCHANGED <<env, args, file, fds, data_size, next_page, end_offset, st_size,
                   pipe_size, r, mainLocals>>

\* the byte counts a write of n bytes may report: all n, or fewer (the model
\* takes the counts up to MaxLen and n - 1 from the shorter ones)
WriteCounts(n) == {k \in 0..n : k = n \/ k = n - 1 \/ k <= MaxLen}

\* nbytes = write(p[1], data, data_size);
\* the kernel stores k bytes: merged into the last slot's page when that slot
\* is mergeable (the page-cache page of the file, after the splice), else in a
\* new slot; with no free slot the write does not return
\* variant: one byte less than the payload counts as a full write
WriteShort_ButOne(nb, size) == nb + 1 < size

\* if ((size_t)nbytes < data_size) { "short write" ... }
WriteShort(nb, size) == nb < size

WritePayload ==
    /\ pc = "cdp_write"
    /\ trace' = Append(trace, "write")
    /\ \E res \in {"ok", "fail", "short"} :
          /\ res = "short" => data_size > 0
          /\ \E k \in WriteCounts(data_size) :
                /\ res = "ok" => k = data_size
                /\ res = "fail" => k = 0
                /\ res = "short" => k < data_size
                /\ faulted' = (faulted \/ res # "ok")
                /\ IF k = 0
                   THEN /\ UNCHANGED <<pipe, file>>
                        /\ nbytes' = IF res = "fail" THEN 0 - 1 ELSE 0
                        /\ IF res = "fail" THEN Fail(WriteFailed)
                           ELSE IF WriteShort(0, data_size) THEN Fail(ShortWrite)
                           ELSE /\ cdp_ret' = EXIT_SUCCESS
                                /\ pc' = "cdp_return"
                                /\ UNCHANGED diag
                   ELSE IF PipeCanMerge(pipe, k)
                   THEN /\ file' = IF pipe.bufs[LastSlot(pipe)].page # AnonPage
                                   THEN PageCacheStore(file, LastSlotEnd(pipe), data, k)
                                   ELSE file
                        /\ pipe' = PipeMerge(pipe, k)
                        /\ nbytes' = k
                        /\ IF WriteShort(k, data_size) THEN Fail(ShortWrite)
                           ELSE /\ cdp_ret' = EXIT_SUCCESS
                                /\ pc' = "cdp_return"
                                /\ UNCHANGED diag
                   ELSE IF PipeFull(pipe)
                   THEN /\ pc' = "blocked"
                        /\ UNCHANGED <<pipe, file, nbytes, diag, cdp_ret>>
                   ELSE /\ pipe' = PipeWriteNew(pipe, k)
                        /\ nbytes' = k
                        /\ UNCHANGED file
                        /\ IF WriteShort(k, data_size) THEN Fail(ShortWrite)
                           ELSE /\ cdp_ret' = EXIT_SUCCESS
                                /\ pc' = "cdp_return"
                                /\ UNCHANGED diag
    /\ UNCHANGED <<env, args, fds, offset, data_size, next_page, end_offset, st_size,
                   pipe_size, r, mainLocals>>

(***************************************************************************)
(* create_test_file, check_file_content, main                              *)
(***************************************************************************)
\* write(fd, test_string, strlen(test_string)) at position 0 of a file opened
\* without O_TRUNC
WriteAtStart(f, d) ==
    [exists |-> TRUE,
     size |-> IF f.size < Len(d) THEN Len(d) ELSE f.size,
     bytes |-> [i \in DOMAIN f.bytes \cup 0..(Len(d) - 1) |->
                   IF i < Len(d) THEN d[i + 1] ELSE f.bytes[i]]]

\* create_test_file(path): open(path, O_CREAT|O_WRONLY, 0444), write, close.
\* An existing artifact has mode 0444: only root opens it for writing.
\* After a failed write the function returns without closing fd.
CreateTestFile ==
    /\ pc = "main_create"
    /\ \E openOk \in BOOLEAN, writeOk \in BOOLEAN :
          IF ~openOk \/ (file.exists /\ ~isRoot)
          THEN /\ create_ret' = EXIT_FAILURE
               /\ faulted' = (faulted \/ ~openOk)
               /\ UNCHANGED <<file, fds>>
          ELSE IF ~writeOk
          THEN /\ create_ret' = EXIT_FAILURE
               /\ file' = [file EXCEPT !.exists = TRUE]
               /\ fds' = fds \cup {"tfd"}
               /\ faulted' = TRUE
          ELSE /\ create_ret' = 0
               /\ file' = WriteAtStart(file, test_string)
               /\ UNCHANGED <<fds, faulted>>
    /\ pc' = "main_call"
    /\ UNCHANGED <<env, args, offset, data_size, next_page, end_offset, st_size, nbytes,
                   pipeLocals, diag, trace, cdp_ret, ret, out, exit_status, cfcLocals>>

\* if (create_test_file(test_file)<0) return EXIT_FAILURE;
\* path = test_file; offset = 6; data = "mammy"; check_dirty_pipe(path, offset, data)
MainCall ==
    /\ pc = "main_call"
    /\ IF create_ret < 0
       THEN /\ exit_status' = EXIT_FAILURE
            /\ pc' = "exit"
            /\ UNCHANGED <<args, offset>>
       ELSE /\ cdp_offset0' = main_offset
            /\ offset' = main_offset
            /\ data' = main_data
            /\ pc' = "cdp_boundary"
            /\ UNCHANGED exit_status
    /\ UNCHANGED <<env, file, fds, data_size, next_page, end_offset, st_size, nbytes,
                   pipeLocals, diag, trace, cdp_ret, create_ret, ret, out,
                   cfcLocals, faulted>>

\* if (check_dirty_pipe(path, offset, data)<0) return EXIT_FAILURE;
MainAfterCall ==
    /\ pc = "cdp_return"
    /\ IF cdp_ret < 0
       THEN /\ exit_status' = EXIT_FAILURE
            /\ pc' = "exit"
       ELSE /\ pc' = "main_cfc"
            /\ UNCHANGED exit_status
    /\ UNCHANGED <<env, args, file, fds, offset, data_size, next_page, end_offset, st_size,
                   nbytes, pipeLocals, diag, trace, cdp_ret, create_ret, ret, out,
                   cfcLocals, faulted>>

\* variant: the result of strncmp is tested for equality
CompareContent_Inverted(rd, b) ==
    IF rd # Len(test_string) \/ SubSeq(b, 1, Len(test_string)) = test_string THEN 1 ELSE 0

\* the value check_file_content returns when read() returned rd and left buf
\* int l=strlen(test_string); if (r!=l || strncmp(test_string,buf,l)!=0) return 1; return 0;
CompareContent(rd, b) ==
    IF rd # Len(test_string) \/ SubSeq(b, 1, Len(test_string)) # test_string THEN 1 ELSE 0

\* check_file_content(path): open, read up to 255 bytes, close, compare
CheckFileContent ==
    /\ pc = "main_cfc"
    /\ \E openOk \in BOOLEAN, readOk \in BOOLEAN :
          IF ~openOk \/ ~file.exists
          THEN /\ ret' = 0 - 1
               /\ faulted' = (faulted \/ ~openOk)
               /\ UNCHANGED cfcLocals
          ELSE /\ faulted' = (faulted \/ ~readOk)
               /\ cfc_r' = IF readOk THEN Min(ReadMax, file.size) ELSE 0 - 1
               /\ buf' = IF readOk THEN FirstBytes(file, ReadMax) ELSE <<>>
               /\ ret' = CompareContent(cfc_r', buf')
    /\ pc' = "main_switch"
    /\ UNCHANGED <<env, args, file, fds, offset, data_size, next_page, end_offset, st_size,
                   nbytes, pipeLocals, diag, trace, cdp_ret, create_ret, out, exit_status>>

\* variant: case 0 has no break and falls through to case 1
PrintedLines_Fallthrough(v) ==
    IF v = 0 THEN <<"You are safe", "VULNERABLE!">> ELSE <<"VULNERABLE!">>

\* the lines printed by case 0 and case 1 of switch(ret)
PrintedLines(v) == IF v = 0 THEN <<"You are safe">> ELSE <<"VULNERABLE!">>

\* switch(ret) { case -1: return EXIT_FAILURE; case 0: printf("You are safe\n"); ...
MainSwitch ==
    /\ pc = "main_switch"
    /\ IF ret = 0 - 1
       THEN /\ exit_status' = EXIT_FAILURE
            /\ pc' = "exit"
            /\ UNCHANGED out
       ELSE /\ out' = out \o PrintedLines(ret)
            /\ pc' = "main_unlink"
            /\ UNCHANGED exit_status
    /\ UNCHANGED <<env, args, file, fds, offset, data_size, next_page, end_offset, st_size,
                   nbytes, pipeLocals, diag, trace, cdp_ret, create_ret, ret,
                   cfcLocals, faulted>>

\* variant: the artifact is not removed
Unlinked_Kept(f) == f

\* the file at the path after unlink()
Unlinked(f) == NoFile

\* unlink("/tmp/testfile.txt"); return 0;
MainUnlink ==
    /\ pc = "main_unlink"
    /\ file' = Unlinked(file)
    /\ exit_status' = 0
    /\ pc' = "exit"
    /\ UNCHANGED <<env, args, fds, offset, data_size, next_page, end_offset, st_size,
                   nbytes, pipeLocals, diag, trace, cdp_ret, create_ret, ret, out,
                   cfcLocals, faulted>>

\* the verdict of a finished run
Verdict ==
    IF pc # "exit" THEN "None"
    ELSE IF exit_status # 0 THEN "Error"
    ELSE IF out = <<"You are safe">> THEN "Safe"
    ELSE IF out = <<"VULNERABLE!">> THEN "Vulnerable"
    ELSE "None"

\* the program is started again: a new process, the same file system
Rerun ==
    /\ pc \in {"exit", "aborted"}
    /\ run < MaxRuns
    /\ run' = run + 1
    /\ verdicts' = Append(verdicts, Verdict)
    /\ pc' = "main_create"
    /\ fds' = {}
    /\ pipe' = NoPipe
    /\ cdp_offset0' = 0
    /\ offset' = 0
    /\ data' = <<>>
    /\ data_size' = 0
    /\ next_page' = 0
    /\ end_offset' = 0
    /\ st_size' = 0
    /\ nbytes' = 0
    /\ pipe_size' = 0
    /\ r' = 0
    /\ diag' = NoError
    /\ trace' = <<>>
    /\ cdp_ret' = NotReturned
    /\ create_ret' = NotReturned
    /\ ret' = NotReturned
    /\ out' = <<>>
    /\ exit_status' = Running
    /\ buf' = <<>>
    /\ cfc_r' = 0
    /\ UNCHANGED <<vulnerable, isRoot, file, faulted>>

(***************************************************************************)
(* Specifications                                                          *)
(***************************************************************************)
LocalsInit ==
    /\ fds = {}
    /\ data_size = 0
    /\ next_page = 0
    /\ end_offset = 0
    /\ st_size = 0
    /\ nbytes = 0
    /\ pipe = NoPipe
    /\ pipe_size = 0
    /\ r = 0
    /\ diag = NoError
    /\ trace = <<>>
    /\ cdp_ret = NotReturned
    /\ create_ret = NotReturned
    /\ ret = NotReturned
    /\ out = <<>>
    /\ exit_status = Running
    /\ buf = <<>>
    /\ cfc_r = 0
    /\ faulted = FALSE

\* main() is started on a file system without the artifact
Init ==
    /\ pc = "main_create"
    /\ run = 1
    /\ verdicts = <<>>
    /\ vulnerable \in BOOLEAN
    /\ isRoot \in BOOLEAN
    /\ file = NoFile
    /\ cdp_offset0 = 0
    /\ offset = 0
    /\ data = <<>>
    /\ LocalsInit

CdpNext ==
    \/ CheckPageBoundary
    \/ CheckCrossPage
    \/ OpenFile
    \/ Fstat
    \/ CheckOffset
    \/ CheckEnd
    \/ PipeCreate
    \/ GetPipeSize
    \/ FillStep
    \/ DrainStep
    \/ Splice
    \/ WritePayload

Next ==
    \/ CreateTestFile
    \/ MainCall
    \/ CdpNext
    \/ MainAfterCall
    \/ CheckFileContent
    \/ MainSwitch
    \/ MainUnlink
    \/ Rerun

Spec == Init /\ [][Next]_vars

\* positions near 0 and near the page boundaries
NearBoundaries ==
    {b \in {p * PAGE_SIZE + d : p \in 0..MaxPage, d \in (0 - MaxDelta)..MaxDelta} : b >= 0}

CallOffsets == NearBoundaries

CallSizes == NearBoundaries

CallLengths == (0..MaxLen) \cup {PAGE_SIZE - 1, PAGE_SIZE, PAGE_SIZE + 1}

\* byte i of a payload: no byte of a target file equals it
DataByte(i) == 100 + (i % 100)

CallFiles ==
    {NoFile} \cup {[exists |-> TRUE, size |-> n, bytes |-> NoBytes] : n \in CallSizes}

CallPayloads == {[i \in 1..n |-> DataByte(i)] : n \in CallLengths}

\* check_dirty_pipe() is called with any path, offset and data
CallInit ==
    /\ pc = "cdp_boundary"
    /\ run = 1
    /\ verdicts = <<>>
    /\ vulnerable \in BOOLEAN
    /\ isRoot = FALSE
    /\ file \in CallFiles
    /\ offset \in CallOffsets
    /\ cdp_offset0 = offset
    /\ data \in CallPayloads
    /\ LocalsInit

CallSpec == CallInit /\ [][CdpNext]_vars

\* the page sizes of the kernels of PrepSpec
KernelPageSizes == {PAGE_SIZE + h * (PAGE_SIZE \div 2) : h \in 0..MaxHalfPages}

\* prepare_pipe() after pipe(p) returned a pipe of any number of slots on a
\* kernel of any page size
PrepInit ==
    /\ pc = "pp_getsz"
    /\ run = 1
    /\ verdicts = <<>>
    /\ vulnerable \in BOOLEAN
    /\ isRoot = FALSE
    /\ file = NoFile
    /\ cdp_offset0 = 0
    /\ offset = 0
    /\ data = <<>>
    /\ fds = {"p0", "p1"}
    /\ data_size = 0
    /\ next_page = 0
    /\ end_offset = 0
    /\ st_size = 0
    /\ nbytes = 0
    /\ pipe \in {KernelPipe(n, s) : n \in 1..MaxSlots, s \in KernelPageSizes}
    /\ pipe_size = 0
    /\ r = 0
    /\ diag = NoError
    /\ trace = <<"prepare">>
    /\ cdp_ret = NotReturned
    /\ create_ret = NotReturned
    /\ ret = NotReturned
    /\ out = <<>>
    /\ exit_status = Running
    /\ buf = <<>>
    /\ cfc_r = 0
    /\ faulted = FALSE

PrepNext ==
    \/ GetPipeSize
    \/ FillStep
    \/ DrainStep

PrepSpec == PrepInit /\ [][PrepNext]_vars

(***************************************************************************)
(* Observations                                                            *)
(***************************************************************************)
TypeOK ==
    /\ pc \in {"main_create", "main_call", "cdp_boundary", "cdp_cross", "cdp_open",
               "cdp_fstat", "cdp_offset", "cdp_end", "pp_pipe", "pp_getsz", "pp_fill",
               "pp_drain", "cdp_splice", "cdp_write", "cdp_return", "main_cfc",
               "main_switch", "main_unlink", "exit", "aborted", "blocked"}
    /\ run \in 1..MaxRuns
    /\ fds \subseteq {"tfd", "fd", "p0", "p1"}
    /\ cdp_ret \in {NotReturned, EXIT_SUCCESS, EXIT_FAILURE}
    /\ ret \in {NotReturned, 0 - 1, 0, 1}
    /\ diag \in WriteErrors \cup {NoError}

(***************************************************************************)
(* Properties                                                              *)
(***************************************************************************)
\* orig with the bytes [off, off + Len(d)) replaced by d
Replaced(orig, off, d) ==
    [i \in 1..Len(orig) |-> IF i - 1 >= off /\ i - 1 < off + Len(d) THEN d[i - off] ELSE orig[i]]

\* the splice-then-write sequence of check_dirty_pipe ran to completion
SequenceCompleted == cdp_ret = EXIT_SUCCESS

\* C1: whenever check_dirty_pipe fails with a WriteError, the harness run ends
\* with verdict Error and a non-zero exit status, and the verdict Safe is
\* produced only in runs where the splice-then-write sequence ran to completion.
C1_WriteErrorGivesError ==
    /\ (pc = "exit" /\ cdp_ret = EXIT_FAILURE) => (Verdict = "Error" /\ exit_status # 0)
    /\ Verdict = "Safe" => SequenceCompleted

\* C2: when check_dirty_pipe returns, on success or on any failure, the file
\* handle and both pipe endpoints obtained in the call have been released.
C2_DescriptorsReleased ==
    pc = "cdp_return" => fds \cap {"fd", "p0", "p1"} = {}

\* C3: on a vulnerable kernel, when no system call fails, the harness run ends
\* with verdict Vulnerable and the bytes it read back from the artifact are
\* "Hello World!\n" with the bytes [6, 11) replaced by "mammy" and every other
\* byte as it was.
C3_VulnerableOverwrites ==
    (vulnerable /\ ~faulted /\ pc = "exit") =>
        /\ Verdict = "Vulnerable"
        /\ exit_status = 0
        /\ buf = Replaced(test_string, main_offset, main_data)
        /\ buf = <<72, 101, 108, 108, 111, 32, 109, 97, 109, 109, 121, 33, 10>>

C3_Witness ==
    /\ vulnerable
    /\ ~faulted
    /\ pc = "exit"
    /\ Verdict = "Vulnerable"
    /\ cdp_ret = EXIT_SUCCESS
    /\ buf # test_string

\* C4: on a kernel that is not vulnerable, no step of the harness between the
\* creation and the removal of the artifact changes the artifact, and when no
\* system call fails the run reads back "Hello World!\n" and ends with verdict
\* Safe.
C4_SafeLeavesContent ==
    /\ [](~vulnerable /\ ~faulted /\ pc = "exit" =>
              Verdict = "Safe" /\ exit_status = 0 /\ buf = test_string)
    /\ [][(~vulnerable /\ pc \notin {"main_create", "main_unlink"}) => file' = file]_vars

C4_Witness ==
    /\ ~vulnerable
    /\ ~faulted
    /\ pc = "exit"
    /\ Verdict = "Safe"
    /\ cdp_ret = EXIT_SUCCESS
    /\ Len(trace) = 9

\* C5: for every offset that is a multiple of the page size, check_dirty_pipe
\* returns PageBoundaryOffset as its first step, whatever the payload is and
\* whether or not the file exists, whatever its size and bytes.
C5_PageBoundaryOffset ==
    (cdp_offset0 % PAGE_SIZE = 0 /\ pc # "cdp_boundary") =>
        /\ pc = "cdp_return"
        /\ cdp_ret = EXIT_FAILURE
        /\ diag = PageBoundaryOffset
        /\ trace = <<"boundary">>
        /\ fds = {}

C5_Witness ==
    /\ pc = "cdp_return"
    /\ cdp_offset0 = PAGE_SIZE
    /\ diag = PageBoundaryOffset
    /\ file.exists
    /\ file.size > PAGE_SIZE
    /\ Len(data) = 1

\* the steps of check_dirty_pipe performed so far in this call
Steps == {trace[i] : i \in 1..Len(trace)}

\* offset rounded up to the next multiple of the page size
NextPageBoundary(off) == ((off \div PAGE_SIZE) + 1) * PAGE_SIZE

\* C6 as stated: for all (offset, payload) with offset + len(payload) >
\* nextPageBoundary(offset), check_dirty_pipe returns CrossesPageBoundary.
C6_AnyOffsetCrosses ==
    (pc = "cdp_return" /\ cdp_offset0 + Len(data) > NextPageBoundary(cdp_offset0)) =>
        diag = CrossesPageBoundary

\* C6, amended: for all (offset, payload) with offset not a multiple of the
\* page size and offset + len(payload) > nextPageBoundary(offset),
\* check_dirty_pipe returns CrossesPageBoundary as its second step.
C6_CrossesPageBoundary ==
    (/\ cdp_offset0 % PAGE_SIZE # 0
     /\ cdp_offset0 + Len(data) > NextPageBoundary(cdp_offset0)
     /\ pc \notin {"cdp_boundary", "cdp_cross"}) =>
        /\ pc = "cdp_return"
        /\ cdp_ret = EXIT_FAILURE
        /\ diag = CrossesPageBoundary
        /\ trace = <<"boundary", "cross">>

C6_Witness ==
    /\ pc = "cdp_return"
    /\ cdp_offset0 = PAGE_SIZE - 1
    /\ Len(data) = 2
    /\ diag = CrossesPageBoundary
    /\ file.exists
    /\ file.size > PAGE_SIZE

\* the call left the file as it was and made no pipe, splice or pipe write
NothingDone ==
    /\ file.bytes = NoBytes
    /\ pipe = NoPipe
    /\ Steps \cap {"prepare", "splice", "write"} = {}
    /\ fds \cap {"p0", "p1"} = {}

\* C7 as stated: every request with offset > size returns OffsetOutOfRange and
\* every other request with offset + len(payload) > size returns WouldGrowFile,
\* the file unchanged and no pipe created, spliced into or written.
C7_AnyRequestOutOfRange ==
    (pc = "cdp_return" /\ file.exists) =>
        /\ cdp_offset0 > file.size => (diag = OffsetOutOfRange /\ NothingDone)
        /\ (cdp_offset0 <= file.size /\ cdp_offset0 + Len(data) > file.size) =>
               (diag = WouldGrowFile /\ NothingDone)

\* C7, amended: every request that passed the page-boundary and cross-page
\* checks and whose open and stat succeeded returns OffsetOutOfRange when
\* offset > size, and WouldGrowFile when offset <= size < offset + len(payload);
\* in both cases the file is unchanged and no pipe was created, spliced into or
\* written.
C7_OutOfRange ==
    (pc = "cdp_return" /\ "offset" \in Steps) =>
        /\ cdp_offset0 > file.size => (diag = OffsetOutOfRange /\ NothingDone)
        /\ (cdp_offset0 <= file.size /\ cdp_offset0 + Len(data) > file.size) =>
               (diag = WouldGrowFile /\ NothingDone)
        /\ diag \in {OffsetOutOfRange, WouldGrowFile} => cdp_ret = EXIT_FAILURE

C7_Witness ==
    /\ pc = "cdp_return"
    /\ diag = OffsetOutOfRange
    /\ cdp_offset0 > file.size
    /\ file.size > 0
    /\ "offset" \in Steps

\* C8: a request with offset = size (offset not a page multiple) that reaches
\* the size checks returns OffsetOutOfRange, whatever the payload.
C8_OffsetAtEnd ==
    (/\ pc = "cdp_return"
     /\ "offset" \in Steps
     /\ cdp_offset0 = file.size
     /\ cdp_offset0 % PAGE_SIZE # 0) =>
        (cdp_ret = EXIT_FAILURE /\ diag = OffsetOutOfRange)

\* the errors of the checks made on offset, payload and size
ArgumentErrors == {PageBoundaryOffset, CrossesPageBoundary, OffsetOutOfRange, WouldGrowFile}

\* the request of C9: the last byte of a file of size >= 1
LastByteRequest ==
    /\ file.exists
    /\ file.size >= 1
    /\ cdp_offset0 = file.size - 1
    /\ Len(data) = 1

\* C9 as stated: for every file size >= 1 the request offset = size - 1 with a
\* payload of length 1 is rejected by no validation.
C9_AnySizeLastByte ==
    LastByteRequest => diag \notin ArgumentErrors

\* C9, amended: for every file size >= 1 with size - 1 not a multiple of the
\* page size, the request offset = size - 1 with a payload of length 1 is
\* rejected by none of the checks on offset, payload and size, and, once open
\* and stat succeeded, execution proceeds to the preparation of the pipe.
C9_LastByte ==
    (LastByteRequest /\ (file.size - 1) % PAGE_SIZE # 0) =>
        /\ diag \notin ArgumentErrors
        /\ "offset" \in Steps => pc \in {"cdp_offset", "cdp_end"} \/ "end" \in Steps
        /\ ("end" \in Steps /\ pc # "pp_pipe") => "prepare" \in Steps

C9_Witness ==
    /\ LastByteRequest
    /\ file.size = PAGE_SIZE
    /\ pc = "pp_getsz"
    /\ trace = <<"boundary", "cross", "open", "stat", "offset", "end", "prepare">>

\* the verdict the read-back calls for: Safe for unchanged content, Vulnerable
\* for the original with the payload at the expected position, Error for any
\* other content and for a failed open or read
Classification ==
    IF ret = 0 - 1 \/ cfc_r < 0 THEN "Error"
    ELSE IF buf = test_string THEN "Safe"
    ELSE IF buf = Replaced(test_string, main_offset, main_data) THEN "Vulnerable"
    ELSE "Error"

\* C10: the verdict of a run that read the artifact back is Safe when the
\* content is unchanged, Vulnerable only when it is the original with the
\* payload at the expected position, and Error for any other content and for a
\* failed open or read.
C10_Classification ==
    (pc = "exit" /\ ret # NotReturned) => Verdict = Classification

\* C11: on every path by which the harness run returns after it created the
\* artifact, the artifact has been removed before the return.
C11_ArtifactRemoved ==
    (pc = "exit" /\ create_ret = 0) => ~file.exists

\* C12: when no system call fails, every run of the harness starts without the
\* artifact and ends with the verdict of the runs before it.
C12_SameVerdict ==
    ~faulted =>
        /\ (pc = "main_create" /\ run > 1) => file = NoFile
        /\ pc = "exit" => \A i \in 1..Len(verdicts) : verdicts[i] = Verdict

C12_Witness ==
    /\ ~faulted
    /\ pc = "exit"
    /\ run = 2
    /\ verdicts = <<"Vulnerable">>
    /\ Verdict = "Vulnerable"

\* C13: a run that exits with status 0 has printed exactly one verdict line,
\* "You are safe" or "VULNERABLE!"; a run that exits with another status has
\* printed none; no run prints more than one.
C13_OneVerdictLine ==
    /\ Len(out) <= 1
    /\ (pc = "exit" /\ exit_status = 0) =>
           (Len(out) = 1 /\ out[1] \in {"You are safe", "VULNERABLE!"})
    /\ (pc = "exit" /\ exit_status # 0) => out = <<>>
    /\ pc # "exit" => exit_status = Running

C13_Witness ==
    /\ pc = "exit"
    /\ exit_status = 0
    /\ out = <<"You are safe">>
    /\ run = 2
    /\ verdicts = <<"Error">>

\* the steps of check_dirty_pipe in the order of the claim
StepOrder == <<"boundary", "cross", "open", "stat", "offset", "end", "prepare", "splice", "write">>

IsPrefix(s, t) == Len(s) <= Len(t) /\ \A i \in 1..Len(s) : s[i] = t[i]

\* the errors a step can end the call with
StepErrors(step) ==
    CASE step = "boundary" -> {PageBoundaryOffset}
      [] step = "cross" -> {CrossesPageBoundary}
      [] step = "open" -> {OpenFailed}
      [] step = "stat" -> {StatFailed}
      [] step = "offset" -> {OffsetOutOfRange}
      [] step = "end" -> {WouldGrowFile}
      [] step = "splice" -> {SpliceFailed, ShortSplice}
      [] step = "write" -> {WriteFailed, ShortWrite}
      [] OTHER -> {}

\* C14: the steps of check_dirty_pipe are performed in the order page-boundary
\* offset, cross-page payload, open, stat, offset > size, endOffset > size,
\* prepare, splice, write; a step is performed only if every check before it
\* passed; the call returns the error of the first check that fails, and
\* performs no step after it.
C14_CheckOrder ==
    LET off == cdp_offset0
        end == cdp_offset0 + Len(data)
    IN /\ IsPrefix(trace, StepOrder)
       /\ diag # NoError =>
              /\ pc = "cdp_return"
              /\ cdp_ret = EXIT_FAILURE
              /\ trace # <<>>
              /\ diag \in StepErrors(trace[Len(trace)])
       /\ diag = PageBoundaryOffset <=> ("boundary" \in Steps /\ off % PAGE_SIZE = 0)
       /\ "cross" \in Steps => off % PAGE_SIZE # 0
       /\ diag = CrossesPageBoundary <=> ("cross" \in Steps /\ end > NextPageBoundary(off))
       /\ "open" \in Steps => end <= NextPageBoundary(off)
       /\ diag = OpenFailed <=> ("open" \in Steps /\ "fd" \notin fds)
       /\ "stat" \in Steps => (file.exists /\ "fd" \in fds)
       /\ "offset" \in Steps => diag # StatFailed
       /\ diag = OffsetOutOfRange <=> ("offset" \in Steps /\ off > file.size)
       /\ "end" \in Steps => off <= file.size
       /\ diag = WouldGrowFile <=> ("end" \in Steps /\ end > file.size)
       /\ "prepare" \in Steps => end <= file.size
       /\ pipe # NoPipe => "prepare" \in Steps
       /\ "splice" \in Steps => pipe # NoPipe
       /\ "write" \in Steps => diag \notin {SpliceFailed, ShortSplice}
       /\ file.bytes # NoBytes => "write" \in Steps

C14_Witness ==
    /\ pc = "cdp_return"
    /\ trace = StepOrder
    /\ cdp_ret = EXIT_SUCCESS
    /\ file.bytes # NoBytes
    /\ cdp_offset0 = PAGE_SIZE + 1

\* C15: after prepare_pipe returns, the pipe is empty, the bytes read back are
\* the bytes written and both are the queried capacity, and every slot of the
\* ring carries the mergeable marking, whether or not the capacity is a
\* multiple of the 4096-byte buffer.
C15_PreparedPipe ==
    /\ pc = "cdp_splice" =>
           /\ PipeEmpty(pipe)
           /\ PipeBytes(pipe) = 0
           /\ r = 0
           /\ pipe_size = pipe.n * pipe.slot
           /\ pipe.head = pipe.tail
           /\ \A i \in 1..pipe.n : pipe.bufs[i].merge
    /\ (pc = "pp_fill" /\ pipe_size >= 0) => PipeBytes(pipe) = pipe_size - r
    /\ (pc = "pp_drain" /\ pipe_size >= 0) => PipeBytes(pipe) = r

C15_Witness ==
    /\ pc = "cdp_splice"
    /\ pipe.slot = PAGE_SIZE + (PAGE_SIZE \div 2)
    /\ pipe.n = 1
    /\ pipe.bufs[1].merge
    /\ pipe_size % BufferSize # 0

\* C16: the splice asks for exactly one byte at position offset - 1 through
\* the cursor offset, which is back at the offset passed once the byte is
\* transferred; a transfer of no byte gives ShortSplice, a failure gives
\* SpliceFailed, and in both cases the payload is not written.
C16_Splice ==
    /\ (trace # <<>> /\ trace[Len(trace)] = "splice") =>
           /\ nbytes \in {0 - 1, 0, 1}
           /\ nbytes = 1 =>
                  /\ pc = "cdp_write"
                  /\ diag = NoError
                  /\ offset = cdp_offset0
                  /\ PipeBytes(pipe) = 1
                  /\ pipe.bufs[LastSlot(pipe)].len = 1
                  /\ pipe.bufs[LastSlot(pipe)].page * pipe.slot
                         + pipe.bufs[LastSlot(pipe)].poff = cdp_offset0 - 1
           /\ nbytes = 0 => (diag = ShortSplice /\ pc = "cdp_return" /\ cdp_ret = EXIT_FAILURE)
           /\ nbytes < 0 => (diag = SpliceFailed /\ pc = "cdp_return" /\ cdp_ret = EXIT_FAILURE)
    /\ diag \in {SpliceFailed, ShortSplice} =>
           /\ "write" \notin Steps
           /\ trace[Len(trace)] = "splice"
           /\ file.bytes = NoBytes
    /\ "write" \in Steps => ("splice" \in Steps /\ offset = cdp_offset0)

C16_Witness ==
    /\ pc = "cdp_write"
    /\ nbytes = 1
    /\ offset = cdp_offset0
    /\ cdp_offset0 = PAGE_SIZE + 1
    /\ pipe.bufs[LastSlot(pipe)].page = 1
    /\ pipe.bufs[LastSlot(pipe)].poff = 0

\* C17: check_dirty_pipe returns success only when the one write of the
\* payload reported all its bytes; fewer bytes give ShortWrite, a failure
\* gives WriteFailed, and the write is issued once.
C17_FullWrite ==
    /\ Cardinality({i \in 1..Len(trace) : trace[i] = "write"}) <= 1
    /\ cdp_ret = EXIT_SUCCESS => "write" \in Steps
    /\ (pc = "cdp_return" /\ "write" \in Steps) =>
           /\ cdp_ret = EXIT_SUCCESS <=> nbytes = data_size
           /\ nbytes < 0 <=> diag = WriteFailed
           /\ (nbytes >= 0 /\ nbytes < data_size) <=> diag = ShortWrite
           /\ diag # NoError => cdp_ret = EXIT_FAILURE

C17_Witness ==
    /\ pc = "cdp_return"
    /\ "write" \in Steps
    /\ diag = ShortWrite
    /\ nbytes > 0
    /\ nbytes = data_size - 1

\* C18: when pipe() fails the process is aborted in prepare_pipe: nothing is
\* written to or read from a pipe, no splice and no write of the payload
\* follow, nothing is printed and the process has no exit status of main.
C18_AbortOnNoPipe ==
    ("prepare" \in Steps /\ pipe = NoPipe) =>
        /\ pc = "aborted"
        /\ trace[Len(trace)] = "prepare"
        /\ pipe_size = 0
        /\ r = 0
        /\ nbytes = 0
        /\ cdp_ret = NotReturned
        /\ ret = NotReturned
        /\ out = <<>>
        /\ exit_status = Running

C18_Witness ==
    /\ pc = "aborted"
    /\ pipe = NoPipe
    /\ trace = <<"boundary", "cross", "open", "stat", "offset", "end", "prepare">>
    /\ out = <<>>
    /\ run = 2

\* C19: whenever the splice is reached, offset >= 1, the byte at offset - 1
\* and the bytes of [offset, end_offset) lie in one page, and all of them lie
\* inside the file.
C19_SamePageInsideFile ==
    "splice" \in Steps =>
        /\ cdp_offset0 >= 1
        /\ Len(data) > 0 =>
               (cdp_offset0 - 1) \div PAGE_SIZE = (cdp_offset0 + Len(data) - 1) \div PAGE_SIZE
        /\ cdp_offset0 - 1 < file.size
        /\ cdp_offset0 + Len(data) <= file.size

C19_Witness ==
    /\ "splice" \in Steps
    /\ Len(data) = MaxLen
    /\ cdp_offset0 + Len(data) = PAGE_SIZE
    /\ file.size = PAGE_SIZE

\* C20: whatever F_GETPIPE_SZ returned, the count the fill loop starts from
\* is no more than the capacity of the pipe, and no write of the fill loop
\* blocks on a full pipe.
C20_FillFits ==
    (pc \in {"pp_fill", "pp_drain", "blocked"} /\ trace[Len(trace)] = "prepare") =>
        /\ ~UGt(pipe_size, PipeCapacity(pipe))
        /\ pc # "blocked"

====
